---- MODULE Spec2Model ----
(***************************************************************************)
(* Streaming response core of gpt-load: the dispatcher                     *)
(* (ProxyServer.handleStreamingResponse), the retry controller             *)
(* (StreamHandler.HandleStreamingResponse), the single-attempt interpreter *)
(* (StreamHandler.processStreamAttempt) and the simple pass-through        *)
(* (ProxyServer.handleSimpleStreamingResponse).                            *)
(*                                                                         *)
(* Text is a sequence of characters, each character a one-symbol string.   *)
(* Multi-byte code points carry a name ("IDEO_STOP" is U+3002) and their   *)
(* UTF-8 width is given by ByteWidth, because Go's len() counts bytes.     *)
(***************************************************************************)
EXTENDS Integers, Sequences, FiniteSets, TLC

\* ------------------------------------------------------------------ bounds

\* Lines the upstream sends in one session, over all its responses.
MaxTotalLines == 3

\* The same for a session entered through handleStreamingResponse, whose
\* factory configurations allow up to six attempts.
MaxDispatchLines == 2

\* Of the lines of a session, the lines that are not a decodable data: line or data: [DONE]:
\* empty lines, undecodable payloads, other lines, unterminated tails.
MaxNoiseLines == 1

\* Largest StreamConfig.MaxRetries a caller of NewStreamHandler passes.
MaxCfgRetries == 1

\* Longest conversation array (contents, messages) of a request body.
MaxContents == 3

\* Most calls of ReshapeStreamReqBody on one request body.
MaxReshapes == 2

\* Lines the upstream sends in one session whose termination is followed.
MaxFairLines == 1

\* ------------------------------------------------------- program constants

\* NewStreamHandler: the value a non-positive MaxRetries is replaced by.
DefaultMaxRetries == 3

\* isContentComplete: len(text) > 50.
MinCompleteLen == 50

\* The punctuation streak that declares completion.
PunctStreakLimit == 3

\* writeRetryError: the status written.
RetryErrorStatus == 504

\* CreateProcessor: per-channel MaxRetries.
GeminiMaxRetries == 5
OpenAIMaxRetries == 2
AnthropicMaxRetries == 2
GenericMaxRetries == 3

\* ------------------------------------------------------------------- text

WhiteSpace == {" ", "TAB", "NL"}

\* const punctuations in endsWithSentencePunctuation.
Punctuations == {"IDEO_STOP", "FW_QUESTION", "FW_EXCLAM", ".", "!", "?", "ELLIPSIS", "QUOTE", "APOS"}

ByteWidth(c) == IF c \in {"IDEO_STOP", "FW_QUESTION", "FW_EXCLAM", "ELLIPSIS"} THEN 3 ELSE 1

\* len(s): the sum of the characters' widths (one byte each, and the extra
\* bytes of the wider ones).
ByteLen(s) ==
    Len(s) + 2 * Cardinality({i \in 1..Len(s) : ByteWidth(s[i]) = 3})

HasSuffix(s, p) == Len(p) <= Len(s) /\ SubSeq(s, Len(s) - Len(p) + 1, Len(s)) = p

TrimSuffix(s, p) == IF HasSuffix(s, p) THEN SubSeq(s, 1, Len(s) - Len(p)) ELSE s

Contains(s, p) == \E i \in 0..(Len(s) - Len(p)) : SubSeq(s, i + 1, i + Len(p)) = p

RECURSIVE TrimLeft(_)
TrimLeft(s) == IF s # <<>> /\ Head(s) \in WhiteSpace THEN TrimLeft(Tail(s)) ELSE s

RECURSIVE TrimRight(_)
TrimRight(s) == IF s # <<>> /\ s[Len(s)] \in WhiteSpace THEN TrimRight(SubSeq(s, 1, Len(s) - 1)) ELSE s

TrimSpace(s) == TrimRight(TrimLeft(s))

\* The done-token patterns of CreateProcessor and NewStreamHandler, in order.
DefaultDoneTokenPatterns == << <<"[", "d", "o", "n", "e", "]">>, <<"[", "D", "O", "N", "E", "]">>, <<"d", "o", "n", "e">>, <<"D", "O", "N", "E">> >>

\* ----------------------------------------------------------- configuration

ChannelTypes == {"openai", "anthropic", "gemini", "generic"}

\* StreamHandler fields from a StreamConfig (RetryDelay is a duration the
\* model does not measure: the sleep is a step that takes no model time).
NewStreamHandler(config) ==
    [maxRetries |-> IF config.MaxRetries <= 0 THEN DefaultMaxRetries ELSE config.MaxRetries,
     enablePunctuationHeuristic |-> config.EnablePunctuationHeuristic,
     doneTokenPatterns |-> IF Len(config.DoneTokenPatterns) = 0
                           THEN DefaultDoneTokenPatterns
                           ELSE config.DoneTokenPatterns]

\* Mutant of CreateProcessor: every channel gets the base configuration.
CreateProcessorBase(channelType) ==
    [MaxRetries |-> GenericMaxRetries, EnablePunctuationHeuristic |-> TRUE,
     DoneTokenPatterns |-> DefaultDoneTokenPatterns]

\* The StreamConfig CreateProcessor builds for a channel type.
CreateProcessor(channelType) ==
    CASE channelType = "gemini" ->
           [MaxRetries |-> GeminiMaxRetries, EnablePunctuationHeuristic |-> TRUE,
            DoneTokenPatterns |-> DefaultDoneTokenPatterns]
      [] channelType = "openai" ->
           [MaxRetries |-> OpenAIMaxRetries, EnablePunctuationHeuristic |-> FALSE,
            DoneTokenPatterns |-> <<>>]
      [] channelType = "anthropic" ->
           [MaxRetries |-> AnthropicMaxRetries, EnablePunctuationHeuristic |-> FALSE,
            DoneTokenPatterns |-> <<>>]
      [] OTHER ->
           [MaxRetries |-> GenericMaxRetries, EnablePunctuationHeuristic |-> TRUE,
            DoneTokenPatterns |-> DefaultDoneTokenPatterns]

\* The DefaultStreamProcessor built from a StreamConfig.
NewDefaultStreamProcessor(config) == [handler |-> NewStreamHandler(config), config |-> config]

GetStreamConfig(p) == p.config

\* ------------------------------------------------------------- SSE frames

\* The decoded JSON object of a data: line, reduced to the paths the stream
\* handler reads.  An absent or non-string path is the empty text / "".
\*   gemText     candidates[0].content.parts[0].text
\*   metaFinish  metadata.finishReason
\*   oaContent   choices[0].delta.content
\*   oaFinish    choices[0].finish_reason
\*   type        type
\*   deltaText   delta.text
\*   text        text
\*   content     content
\*   finish      finish_reason
EmptyData ==
    [gemText |-> <<>>, metaFinish |-> "", oaContent |-> <<>>, oaFinish |-> "",
     type |-> "", deltaText |-> <<>>, text |-> <<>>, content |-> <<>>, finish |-> ""]

extractOpenAIText(data) == data.oaContent

extractGeminiText(data) == data.gemText

extractAnthropicText(data) ==
    IF data.type = "content_block_delta" THEN data.deltaText ELSE <<>>

extractGenericText(data) ==
    IF data.text # <<>> THEN data.text ELSE data.content

extractTextFromData(data, channelType) ==
    CASE channelType = "openai" -> extractOpenAIText(data)
      [] channelType = "gemini" -> extractGeminiText(data)
      [] channelType = "anthropic" -> extractAnthropicText(data)
      [] OTHER -> extractGenericText(data)

ContainsAny(text, patterns) == \E i \in 1..Len(patterns) : Contains(text, patterns[i])

isOpenAIComplete(data) == data.oaFinish \in {"stop", "length"}

isGeminiComplete(data, accumulated, patterns) ==
    ContainsAny(accumulated, patterns) \/ data.metaFinish = "STOP"

isAnthropicComplete(data) == data.type = "message_stop"

isGenericComplete(data, accumulated, patterns) ==
    ContainsAny(accumulated, patterns) \/ data.finish \in {"stop", "length"}

isStreamComplete(data, channelType, accumulated, patterns) ==
    CASE channelType = "openai" -> isOpenAIComplete(data)
      [] channelType = "gemini" -> isGeminiComplete(data, accumulated, patterns)
      [] channelType = "anthropic" -> isAnthropicComplete(data)
      [] OTHER -> isGenericComplete(data, accumulated, patterns)

\* Mutant of endsWithSentencePunctuation: the text is not trimmed.
endsWithSentencePunctuationUntrimmed(text) ==
    IF Len(text) = 0 THEN FALSE ELSE text[Len(text)] \in Punctuations

endsWithSentencePunctuation(text) ==
    LET trimmed == TrimSpace(text)
    IN  IF Len(trimmed) = 0 THEN FALSE ELSE trimmed[Len(trimmed)] \in Punctuations

isContentComplete(text, channelType, patterns) ==
    IF text = <<>> THEN FALSE
    ELSE IF channelType = "gemini" /\ ContainsAny(text, patterns) THEN TRUE
    ELSE endsWithSentencePunctuation(text) /\ ByteLen(text) > MinCompleteLen

\* The for/break loop of RemoveDoneTokensFromText from pattern i on: the first
\* pattern that is a suffix is removed, the rest is TrimSpace'd, and the loop
\* stops.
RECURSIVE RemoveFrom(_, _, _)
RemoveFrom(text, patterns, i) ==
    IF i > Len(patterns) THEN text
    ELSE IF HasSuffix(text, patterns[i]) THEN TrimSpace(TrimSuffix(text, patterns[i]))
    ELSE RemoveFrom(text, patterns, i + 1)

RemoveDoneTokensFromText(text, patterns) == RemoveFrom(text, patterns, 1)

\* An SSE line as the scanner returns it.
\*   kind     "blank"  the empty line
\*            "done"   data: [DONE]
\*            "bad"    data: <payload that does not decode as a JSON object>
\*            "frame"  data: <JSON object>, decoded in data
\*            "other"  a line without the "data: " prefix
\*   partial  the line is the unterminated tail of a body that ended mid-line
\*            (bufio.Scanner returns the remaining bytes as a last token)
\*   remarshalled  the payload is json.Marshal output, not the upstream bytes
MkLine(kind, data, partial) ==
    [kind |-> kind, data |-> data, partial |-> partial, remarshalled |-> FALSE]

NoLine == MkLine("blank", EmptyData, FALSE)

HasDataPrefix(line) == line.kind \in {"done", "bad", "frame"}

removeDoneTokensFromLine(line, patterns) ==
    IF ~HasDataPrefix(line) THEN line
    ELSE IF line.kind = "done" THEN line
    ELSE IF line.kind = "bad" THEN line
    ELSE LET text == extractGeminiText(line.data)
             cleanText == RemoveDoneTokensFromText(text, patterns)
         IN  IF text = <<>> THEN line
             ELSE IF cleanText # text
                  THEN [line EXCEPT !.data.gemText = cleanText, !.remarshalled = TRUE]
                  ELSE line

\* --------------------------------------------------------------- upstream

\* Sixteen three-byte code points, 48 bytes: with three more bytes a text of
\* 19 code points is 51 bytes long, longer than MinCompleteLen.
Padding == [i \in 1..(MinCompleteLen \div 3) |-> "ELLIPSIS"]

\* A text without a done token whose repetition contains one: "nedo" twice
\* is "nedonedo".
TxtPlain == <<"n", "e", "d", "o">>
TxtPunct == <<"a", ".">>
TxtDone == <<"x", " ", "[", "d", "o", "n", "e", "]">>
TxtTwice == <<"[", "d", "o", "n", "e", "]", "[", "d", "o", "n", "e", "]">>
TxtLong == Padding \o <<"a", "b", ".">>

\* The text chunks an upstream frame carries.
Chunks == {TxtPlain, TxtPunct, TxtDone, TxtTwice, TxtLong}

\* The JSON objects an upstream sends on a channel: its own dialect's text
\* frames, a frame without text, and its terminal frame.
UpstreamData(channelType) ==
    CASE channelType = "gemini" ->
           {[EmptyData EXCEPT !.gemText = t] : t \in Chunks}
             \cup {EmptyData, [EmptyData EXCEPT !.metaFinish = "STOP"]}
      [] channelType = "openai" ->
           {[EmptyData EXCEPT !.oaContent = t] : t \in {TxtPlain, TxtLong}}
             \cup {[EmptyData EXCEPT !.oaFinish = "stop"]}
      [] channelType = "anthropic" ->
           {[EmptyData EXCEPT !.type = "content_block_delta", !.deltaText = t] : t \in {TxtPlain, TxtLong}}
             \cup {[EmptyData EXCEPT !.type = "message_stop"]}
      [] OTHER ->
           {[EmptyData EXCEPT !.text = t] : t \in {TxtPunct, TxtDone, TxtLong}}
             \cup {[EmptyData EXCEPT !.content = TxtPlain], [EmptyData EXCEPT !.finish = "length"]}

\* The complete lines of an upstream body.
UpstreamLines(channelType) ==
    {MkLine("frame", d, FALSE) : d \in UpstreamData(channelType)}
      \cup {MkLine(k, EmptyData, FALSE) : k \in {"blank", "done", "bad", "other"}}

\* The unterminated tail of a body cut off mid-line: a proper prefix of a
\* line.  Cut inside the "data: " prefix (or inside a line that has none) it is
\* a line without that prefix.  (Cut inside the payload it is a data: line
\* whose payload does not decode, handled as the complete "bad" line is.)
UpstreamTails == {MkLine("other", EmptyData, TRUE)}

\* --------------------------------------------------------- request bodies

\* The keys of a request body the streaming core knows (model stands for the
\* keys it never touches).
Keys == {"contents", "messages", "model", "systemInstruction", "system_instruction"}

\* A JSON object under systemInstruction or system_instruction:
\*   partsKind  "absent": no parts key; "other": parts is not an array;
\*              "array": parts is the array in parts
\*   role       its role key ("" when absent)
MkInstruction(partsKind, parts, role) == [partsKind |-> partsKind, parts |-> parts, role |-> role]

NoInstruction == MkInstruction("absent", <<>>, "")

\* An element of a conversation array: a JSON object with a role (role "" when
\* it has none or it is not a string) and a text (parts[0].text or content), or
\* a value that is not an object.
MkEntry(isMap, role, text) == [isMap |-> isMap, role |-> role, text |-> text]

NilEntry == MkEntry(FALSE, "", <<>>)

\* A JSON value of a body: t is "absent" (no such key), "null", "str",
\* "array" (of entries, in elems) or "obj" (an instruction, in obj).
JSONValue(t, s, elems, obj) == [t |-> t, s |-> s, elems |-> elems, obj |-> obj]

JAbsent == JSONValue("absent", "", <<>>, NoInstruction)
JNull == JSONValue("null", "", <<>>, NoInstruction)
JString(str) == JSONValue("str", str, <<>>, NoInstruction)
JArray(elems) == JSONValue("array", "", elems, NoInstruction)
JObject(obj) == JSONValue("obj", "", <<>>, obj)

\* Bytes of a request body: the encoding of a JSON object, bytes that do not
\* decode as one, or no bytes at all (a body that was read to its end).
ObjectBytes(obj) == [kind |-> "object", obj |-> obj]
GarbageBytes == [kind |-> "garbage", obj |-> [k \in Keys |-> JAbsent]]
NoBytes == [kind |-> "empty", obj |-> [k \in Keys |-> JAbsent]]

\* A Go value held in a map[string]interface{}: as the JSON value, but an
\* array is a slice: the address of its backing array and its length.
GoValue(t, s, arr, len, obj) == [t |-> t, s |-> s, arr |-> arr, len |-> len, obj |-> obj]

GoAbsent == GoValue("absent", "", 0, 0, NoInstruction)
GoSlice(arr, len) == GoValue("slice", "", arr, len, NoInstruction)

\* The heap of createRetryRequest: Go maps and backing arrays by address.
EmptyHeap == [maps |-> <<>>, arrays |-> <<>>]

\* The elements a slice shows.
View(arrays, v) == SubSeq(arrays[v.arr], 1, v.len)

\* cap() of a []interface{} json.Unmarshal decoded n elements into: it appends
\* them one by one to make([]interface{}, 0).
DecodedCap(n) == IF n <= 2 THEN n ELSE IF n <= 4 THEN 4 ELSE 8

Backing(elems) == elems \o [i \in 1..(DecodedCap(Len(elems)) - Len(elems)) |-> NilEntry]

\* json.Unmarshal of one value of the object.
DecodeValue(arrays, v) ==
    IF v.t = "array"
    THEN [arrays |-> Append(arrays, Backing(v.elems)), val |-> GoSlice(Len(arrays) + 1, Len(v.elems))]
    ELSE [arrays |-> arrays, val |-> GoValue(v.t, v.s, 0, 0, v.obj)]

\* json.Unmarshal(bytes, &originalBody) of bytes that decode: a new map.
Unmarshal(heap, bytes) ==
    LET c == DecodeValue(heap.arrays, bytes.obj["contents"])
        m == DecodeValue(c.arrays, bytes.obj["messages"])
        decoded == [k \in Keys |->
                      CASE k = "contents" -> c.val
                        [] k = "messages" -> m.val
                        [] OTHER -> DecodeValue(<<>>, bytes.obj[k]).val]
    IN  [maps |-> Append(heap.maps, decoded), arrays |-> m.arrays, addr |-> Len(heap.maps) + 1]

EncodeValue(arrays, v) ==
    IF v.t = "slice" THEN JArray(View(arrays, v)) ELSE JSONValue(v.t, v.s, <<>>, v.obj)

\* json.Marshal(body) of the map at address body.
Marshal(heap, body) ==
    ObjectBytes([k \in Keys |-> EncodeValue(heap.arrays, heap.maps[body][k])])

\* make([]interface{}, 0, cap)
MakeSlice(arrays, cap) ==
    [arrays |-> Append(arrays, [i \in 1..cap |-> NilEntry]), val |-> GoSlice(Len(arrays) + 1, 0)]

\* []interface{}{xs...}
SliceLiteral(arrays, xs) ==
    [arrays |-> Append(arrays, xs), val |-> GoSlice(Len(arrays) + 1, Len(xs))]

\* append(s, xs...): within the capacity the elements are written into the
\* backing array of s; beyond it a new array is allocated.
GoAppend(arrays, s, xs) ==
    IF s.len + Len(xs) <= Len(arrays[s.arr])
    THEN [arrays |-> [arrays EXCEPT ![s.arr] =
                        [i \in 1..Len(@) |-> IF i > s.len /\ i <= s.len + Len(xs)
                                              THEN xs[i - s.len] ELSE @[i]]],
          val |-> GoSlice(s.arr, s.len + Len(xs))]
    ELSE [arrays |-> Append(arrays, View(arrays, s) \o xs),
          val |-> GoSlice(Len(arrays) + 1, s.len + Len(xs))]

\* body[k] = v
SetKey(heap, body, k, v) == [heap EXCEPT !.maps[body][k] = v]

\* The texts fmt.Sprintf builds around the accumulated text.
PreviousResponse(text) == <<"Previous response: ">> \o text \o <<"Continue">>

ContinuePrompt == <<"Continue exactly where you left off", "[", "d", "o", "n", "e", "]", " at the end.">>

addOpenAIRetryContext(heap, body, text) ==
    LET messages == heap.maps[body]["messages"]
    IN  IF messages.t # "slice" THEN heap
        ELSE LET systemMessage == MkEntry(TRUE, "system", PreviousResponse(text))
                 lit == SliceLiteral(heap.arrays, <<systemMessage>>)
                 newMessages == GoAppend(lit.arrays, lit.val, View(lit.arrays, messages))
             IN  SetKey([heap EXCEPT !.arrays = newMessages.arrays], body, "messages", newMessages.val)

\* Mutant of LastUserBefore: the search runs from the front and stops at the
\* first user entry.
FirstUserBefore(elems, i) ==
    LET users == {j \in 1..i : elems[j].isMap /\ elems[j].role = "user"}
    IN  IF users = {} THEN 0 ELSE CHOOSE j \in users : \A h \in users : j <= h

\* The loop of addGeminiRetryContext from index i down: the index of the last
\* entry that is an object whose role is "user", 0 when there is none (the
\* code's indices are one less, and its -1 is 0 here).
RECURSIVE LastUserBefore(_, _)
LastUserBefore(elems, i) ==
    IF i < 1 THEN 0
    ELSE IF elems[i].isMap /\ elems[i].role = "user" THEN i
    ELSE LastUserBefore(elems, i - 1)

addGeminiRetryContext(heap, body, text) ==
    LET contents == heap.maps[body]["contents"]
    IN  IF contents.t # "slice" THEN heap
        ELSE LET elems == View(heap.arrays, contents)
                 lastUserIndex == LastUserBefore(elems, Len(elems))
                 contextMessages == <<MkEntry(TRUE, "model", text), MkEntry(TRUE, "user", ContinuePrompt)>>
             IN  IF lastUserIndex # 0
                 THEN LET made == MakeSlice(heap.arrays, Len(elems) + 2)
                          a1 == GoAppend(made.arrays, made.val, SubSeq(elems, 1, lastUserIndex))
                          a2 == GoAppend(a1.arrays, a1.val, contextMessages)
                          a3 == GoAppend(a2.arrays, a2.val, SubSeq(elems, lastUserIndex + 1, Len(elems)))
                      IN  SetKey([heap EXCEPT !.arrays = a3.arrays], body, "contents", a3.val)
                 ELSE LET a == GoAppend(heap.arrays, contents, contextMessages)
                      IN  SetKey([heap EXCEPT !.arrays = a.arrays], body, "contents", a.val)

addAnthropicRetryContext(heap, body, text) ==
    LET messages == heap.maps[body]["messages"]
    IN  IF messages.t # "slice" THEN heap
        ELSE LET contextMessage == MkEntry(TRUE, "user", PreviousResponse(text))
                 a == GoAppend(heap.arrays, messages, <<contextMessage>>)
             IN  SetKey([heap EXCEPT !.arrays = a.arrays], body, "messages", a.val)

addGenericRetryContext(heap, body, text) ==
    LET messages == heap.maps[body]["messages"]
    IN  IF messages.t = "slice"
        THEN LET contextMessage == MkEntry(TRUE, "user", PreviousResponse(text))
                 a == GoAppend(heap.arrays, messages, <<contextMessage>>)
             IN  SetKey([heap EXCEPT !.arrays = a.arrays], body, "messages", a.val)
        ELSE heap

\* Mutant of MakeMap: no map is made, the original one is used.
MakeMapShared(heap, originalBody) ==
    [heap |-> heap, addr |-> originalBody]

\* retryBody := make(map[string]interface{})
MakeMap(heap, originalBody) ==
    [heap |-> [heap EXCEPT !.maps = Append(@, [k \in Keys |-> GoAbsent])],
     addr |-> Len(heap.maps) + 1]

\* buildRetryRequestBody: the heap afterwards and the address of retryBody.
buildRetryRequestBody(heap, originalBody, text, channelType) ==
    LET made == MakeMap(heap, originalBody)
        retry == made.addr
        copied == [made.heap EXCEPT !.maps[retry] =
                     [k \in Keys |-> IF made.heap.maps[originalBody][k].t # "absent"
                                     THEN made.heap.maps[originalBody][k] ELSE @[k]]]
        extended == CASE channelType = "openai" -> addOpenAIRetryContext(copied, retry, text)
                      [] channelType = "gemini" -> addGeminiRetryContext(copied, retry, text)
                      [] channelType = "anthropic" -> addAnthropicRetryContext(copied, retry, text)
                      [] OTHER -> addGenericRetryContext(copied, retry, text)
    IN  [heap |-> extended, addr |-> retry]

\* The part injectSystemPrompt adds: {"text": "IMPORTANT: At the very end of
\* your entire response, you must write the token [done] ..."}.
newSystemPromptPart == "IMPORTANT: write [done]"

\* Mutant of MergeParts: the snake_case parts are put after the camelCase ones.
MergePartsAfter(snakeParts, camelParts) == camelParts \o snakeParts

\* camelParts = append(snakeParts, camelParts...)
MergeParts(snakeParts, camelParts) == snakeParts \o camelParts

\* Mutant of AppendMarker: a marker that is there already is not added again.
AppendMarkerOnce(parts) ==
    IF \E i \in 1..Len(parts) : parts[i] = newSystemPromptPart THEN parts
    ELSE Append(parts, newSystemPromptPart)

\* instruction["parts"] = append(parts, newSystemPromptPart)
AppendMarker(parts) == Append(parts, newSystemPromptPart)

\* injectSystemPrompt on the decoded body (the map is the one
\* ReshapeStreamReqBody decoded, which nothing else refers to: it is taken by
\* value here).
injectSystemPrompt(body) ==
    LET snakeVal == body["system_instruction"]
        merged ==
            IF snakeVal.t # "absent"
            THEN LET camelMap == IF body["systemInstruction"].t = "obj"
                                 THEN body["systemInstruction"].obj ELSE NoInstruction
                     camelParts == IF camelMap.partsKind = "array" THEN camelMap.parts ELSE <<>>
                     parts == IF snakeVal.t = "obj" /\ snakeVal.obj.partsKind = "array"
                              THEN MergeParts(snakeVal.obj.parts, camelParts)
                              ELSE camelParts
                 IN  [body EXCEPT !["systemInstruction"] =
                                     JObject([camelMap EXCEPT !.partsKind = "array", !.parts = parts]),
                                  !["system_instruction"] = JAbsent]
            ELSE body
        val == merged["systemInstruction"]
        fresh == JObject(MkInstruction("array", <<newSystemPromptPart>>, ""))
    IN  IF val.t \in {"absent", "null"} THEN [merged EXCEPT !["systemInstruction"] = fresh]
        ELSE IF val.t # "obj" THEN [merged EXCEPT !["systemInstruction"] = fresh]
        ELSE IF val.obj.partsKind # "array"
             THEN [merged EXCEPT !["systemInstruction"] =
                     JObject([val.obj EXCEPT !.partsKind = "array", !.parts = <<newSystemPromptPart>>])]
             ELSE [merged EXCEPT !["systemInstruction"] =
                     JObject([val.obj EXCEPT !.parts = AppendMarker(val.obj.parts)])]

\* GeminiChannel.ReshapeStreamReqBody: the body of the request afterwards.
\* io.ReadAll reads req.Body to its end; it is replaced only when the bytes
\* decode as an object.
ReshapeStreamReqBody(bytes) ==
    IF bytes.kind # "object" THEN NoBytes
    ELSE ObjectBytes(injectSystemPrompt(bytes.obj))

\* ------------------------------------------------------- inbound requests

Entries == {MkEntry(TRUE, "user", <<"u">>), MkEntry(TRUE, "model", <<"m">>), MkEntry(FALSE, "", <<"x">>)}

Conversations == UNION {[1..n -> Entries] : n \in 0..MaxContents}

\* What a body has under contents or messages.
ConversationValues == {JAbsent, JString("text")} \cup {JArray(c) : c \in Conversations}

\* What a body has under systemInstruction.
CamelInstructions ==
    {JAbsent, JNull, JString("be brief"),
     JObject(MkInstruction("absent", <<>>, "system")),
     JObject(MkInstruction("other", <<>>, "")),
     JObject(MkInstruction("array", <<>>, "")),
     JObject(MkInstruction("array", <<"c1", "c2">>, "system")),
     JObject(MkInstruction("array", <<"c1", newSystemPromptPart>>, ""))}

\* What a body has under system_instruction.
SnakeInstructions ==
    {JAbsent, JNull,
     JObject(MkInstruction("absent", <<>>, "")),
     JObject(MkInstruction("array", <<"s1", "s2">>, "")),
     JObject(MkInstruction("array", <<newSystemPromptPart>>, ""))}

\* The JSON objects an inbound request carries.
RequestObjects ==
    {[k \in Keys |-> CASE k = convKey -> conv
                       [] k = "model" -> JString("model-1")
                       [] k = "systemInstruction" -> camel
                       [] k = "system_instruction" -> snake
                       [] OTHER -> JAbsent] :
       convKey \in {"contents", "messages"}, conv \in ConversationValues,
       camel \in CamelInstructions, snake \in SnakeInstructions}

\* The bodies an inbound request carries.
RequestBodies == {ObjectBytes(o) : o \in RequestObjects} \cup {GarbageBytes}

\* The texts a session has accumulated when it asks for a retry request.
ResumeTexts == {<<>>, TxtDone}

\* ------------------------------------------------------- function inputs

\* The texts the text functions are called with: optional leading white
\* space, a body below or beyond the length gate, an optional last character,
\* an optional done token with or without white space before it, optional
\* trailing white space.
TextLeads == {<<>>, <<" ">>}
TextBodies == {<<>>, <<"a">>, Padding \o <<"a">>, Padding \o <<"a", "b">>}
TextLasts == {<<>>} \cup {<<c>> : c \in Punctuations \cup {","}}
TextGaps == {<<>>, <<" ">>}
TextTokens == {<<>>} \cup {DefaultDoneTokenPatterns[i] : i \in 1..Len(DefaultDoneTokenPatterns)}
TextTrails == {<<>>, <<"NL">>}

Texts ==
    {lead \o body \o last \o gap \o token \o trail :
        lead \in TextLeads, body \in TextBodies, last \in TextLasts,
        gap \in TextGaps, token \in TextTokens, trail \in TextTrails}

\* The Gemini frame whose text is text, as the scanner returns it.
GeminiFrame(text) == MkLine("frame", [EmptyData EXCEPT !.gemText = text], FALSE)

\* What a call returned, by the type of the result: a bool, a string, a line,
\* a processor.  The fields a call does not return keep their zero value.
NoReturn ==
    [bool |-> FALSE, text |-> <<>>, line |-> NoLine,
     processor |-> NewDefaultStreamProcessor(
                     [MaxRetries |-> 0, EnablePunctuationHeuristic |-> FALSE, DoneTokenPatterns |-> <<>>])]

\* ------------------------------------------------------------------ state

VARIABLES
    entry,                  \* "dispatcher": handleStreamingResponse was called; "handler": StreamHandler.HandleStreamingResponse was
    channelType,            \* channelHandler.GetChannelType()
    config,                 \* the StreamConfig the processor was built from
    sh,                     \* the StreamHandler's fields
    pc,                     \* where the session is
    resp,                   \* HandleStreamingResponse's resp: the id of the response it reads
    nresp,                  \* responses obtained so far (ids 0..nresp-1; 0 is the dispatcher's resp)
    closed,                 \* ids of the responses whose Body.Close() was called
    atTail,                 \* the scanner has returned the body's unterminated tail
    simpleResp,             \* the response handleSimpleStreamingResponse reads
    accumulatedText,
    consecutiveRetryCount,
    resumePunctStreak,
    lastTextChunk,
    hdr,                    \* the writer's header map: Content-Type
    status,                 \* the status the writer will send with the headers
    wire,                   \* what the client has received: headers committed, status, Content-Type
    clientOut,              \* what the client has received: the body, one record per write
    result,                 \* HandleStreamingResponse's return value ("none" before it returns)
    budget,                 \* lines the upstream sends at most in this session
    linesLeft,              \* lines the upstream may still send in this session
    noiseLeft,              \* of those, lines that are neither a frame nor data: [DONE]
    signals,                \* what occurred in the session (history):
                            \*   "doneLine"  a data: [DONE] line was read
                            \*   "terminalFrame"  a frame was forwarded that isStreamComplete finds terminal
                            \*   "punctStreak"  an attempt ended at EOF with the streak at its limit
                            \*   "contentCompleteAtEnd"  an attempt ended (EOF or read error) with isContentComplete true
                            \*   "contentCompleteAtEOF"  an attempt ended at EOF with isContentComplete true
                            \*   "retryLimit"  an attempt ended without completion and the retry budget was exhausted
                            \*   "writeError"  a write of a line to the client failed
    unwritten,              \* the text chunk of the frame whose write to the client failed (history)
    allPunct,               \* every attempt that ended so far had a last text chunk ending in sentence punctuation (history)
    retryCalls,             \* calls of retryRequestFunc so far (history)
    cancelled,              \* the inbound request's context is cancelled
    ctxDone,                \* ids of the responses whose request context is cancelled
    headerSets,             \* times the SSE headers were set on the writer (history)
    badLines,               \* data: lines read whose payload did not decode (history)
    simpleExit,             \* how handleSimpleStreamingResponse ended ("none": it has not)
    rpc,                    \* where the making of a request is ("idle": none is followed)
    originalBodyBytes,      \* bodyBytes: the body of the inbound request
    goMaps,                 \* the Go maps createRetryRequest allocated, by address
    goArrays,               \* the backing arrays of its slices, by address
    originalBody,           \* createRetryRequest's originalBody: the address of a map (0: none)
    retryBody,              \* createRetryRequest's retryBody: the address of a map (0: none)
    unshaped,               \* the body of the upstream request before ReshapeStreamReqBody (history)
    reqBody,                \* req.Body: the body of the upstream request
    reshapes,               \* calls of ReshapeStreamReqBody on that request (history)
    called,                 \* the function called on its own ("none": no call is followed)
    argText,                \* its text argument
    returned                \* what it returned

vars == <<entry, channelType, config, sh, budget, pc, resp, nresp, closed, atTail, simpleResp,
          accumulatedText, consecutiveRetryCount, resumePunctStreak, lastTextChunk,
          hdr, status, wire, clientOut, result, linesLeft, noiseLeft, signals, unwritten, allPunct, retryCalls,
          cancelled, ctxDone, headerSets, badLines, simpleExit,
          rpc, originalBodyBytes, goMaps, goArrays, originalBody, retryBody, unshaped, reqBody, reshapes,
          called, argText, returned>>

request == <<rpc, originalBodyBytes, goMaps, goArrays, originalBody, retryBody, unshaped, reqBody, reshapes>>
calls == <<called, argText, returned>>
setup == <<entry, channelType, config, sh, budget, request, calls>>
session == <<accumulatedText, consecutiveRetryCount, resumePunctStreak, lastTextChunk>>
writer == <<hdr, status, wire, clientOut>>
history == <<signals, unwritten, allPunct, retryCalls>>

\* The StreamConfigs a direct caller of NewStreamHandler passes.
DirectConfigs ==
    [MaxRetries : 0..MaxCfgRetries,
     EnablePunctuationHeuristic : BOOLEAN,
     DoneTokenPatterns : {<<>>}]

\* The variables of a session before its first attempt, but pc and
\* accumulatedText.
InitStream(e, ch, cfg, b) ==
    /\ entry = e
    /\ channelType = ch
    /\ config = cfg
    /\ sh = NewStreamHandler(cfg)
    /\ resp = 0
    /\ nresp = 1
    /\ closed = {}
    /\ atTail = FALSE
    /\ simpleResp = 0
    /\ consecutiveRetryCount = 0
    /\ resumePunctStreak = 0
    /\ lastTextChunk = <<>>
    /\ hdr = [ctype |-> ""]
    /\ status = 200
    /\ wire = [committed |-> FALSE, status |-> 0, ctype |-> ""]
    /\ clientOut = <<>>
    /\ result = "none"
    /\ budget = b
    /\ linesLeft = b
    /\ noiseLeft = MaxNoiseLines
    /\ signals = {}
    /\ unwritten = <<>>
    /\ allPunct = TRUE
    /\ retryCalls = 0
    /\ cancelled = FALSE
    /\ ctxDone = {}
    /\ headerSets = 0
    /\ badLines = 0
    /\ simpleExit = "none"

\* No request is followed.
NoRequest ==
    /\ rpc = "idle"
    /\ originalBodyBytes = NoBytes
    /\ goMaps = <<>>
    /\ goArrays = <<>>
    /\ originalBody = 0
    /\ retryBody = 0
    /\ unshaped = NoBytes
    /\ reqBody = NoBytes
    /\ reshapes = 0

\* No call is followed.
NoCall ==
    /\ called = "none"
    /\ argText = <<>>
    /\ returned = NoReturn

InitWith(e, ch, cfg, b) ==
    /\ InitStream(e, ch, cfg, b)
    /\ pc = "dispatch"
    /\ accumulatedText = <<>>
    /\ NoRequest
    /\ NoCall

Init ==
    \/ \E ch \in ChannelTypes : InitWith("dispatcher", ch, CreateProcessor(ch), MaxDispatchLines)
    \/ \E ch \in ChannelTypes, cfg \in DirectConfigs : InitWith("handler", ch, cfg, MaxTotalLines)

\* ----------------------------------------------------------------- writer

\* Lines (pass-through: chunks) read from the upstream so far in the session.
ReadCount == budget - linesLeft

\* fmt.Fprintf(writer, "%s\n\n", line): the line followed by two LFs.
\* read is the line as the scanner returned it, and seq its ordinal among the
\* lines the session has read from its upstream responses, the attempts taken
\* in order (both history: the client sees line and term).
SSERecord(read, line) ==
    [kind |-> "sse", seq |-> ReadCount + 1, read |-> read, line |-> line, term |-> "LFLF", n |-> 0]

\* Mutant of RawRecord: the bytes written are those of the read before.
RawRecordStale(r) ==
    [kind |-> "raw", seq |-> ReadCount, read |-> NoLine, line |-> NoLine, term |-> "", n |-> 0]

\* c.Writer.Write(buf[:n]): bytes of the body of response r, as read (seq is
\* the ordinal of the read among the session's reads).
RawRecord(r) ==
    [kind |-> "raw", seq |-> ReadCount + 1, read |-> NoLine, line |-> NoLine, term |-> "", n |-> 0]

\* writer.Write(errorBytes): the error envelope naming the limit n.
EnvelopeRecord(n) ==
    [kind |-> "envelope", seq |-> 0, read |-> NoLine, line |-> NoLine, term |-> "", n |-> n]

\* Mutant of SSEHeaders: the Content-Type is left as it was found.
SSEHeadersUnset == [ctype |-> ""]

\* The header map after the four Set calls for an SSE response (Content-Type:
\* text/event-stream; Cache-Control, Connection and X-Accel-Buffering are set
\* with it and by nothing else, and follow it).
SSEHeaders == [ctype |-> "text/event-stream"]

\* Mutant of Deliver: the record is put before what was written already.
DeliverFirst(rec, st, ct) ==
    /\ clientOut' = <<rec>> \o clientOut
    /\ wire' = IF wire.committed THEN wire
               ELSE [committed |-> TRUE, status |-> st, ctype |-> ct]

\* A successful Write: the headers go out with the first one (status st and
\* Content-Type ct as they are then), the record follows.
Deliver(rec, st, ct) ==
    /\ clientOut' = Append(clientOut, rec)
    /\ wire' = IF wire.committed THEN wire
               ELSE [committed |-> TRUE, status |-> st, ctype |-> ct]

\* The history of attempt ends, after an attempt whose last text chunk is last.
EndedOn(last) == allPunct /\ endsWithSentencePunctuation(last)

\* ------------------------------------------------------------- dispatcher

UsesSimpleProxy(ch) == ch = "openai" \/ ch = "anthropic"

\* handleStreamingResponse up to the call it delegates to; a direct call of
\* StreamHandler.HandleStreamingResponse starts the first attempt.
Dispatch ==
    /\ pc = "dispatch"
    /\ IF entry = "dispatcher" /\ UsesSimpleProxy(channelType)
       THEN /\ pc' = "simple"
            /\ hdr' = SSEHeaders
            /\ headerSets' = headerSets + 1
       ELSE /\ pc' = "start"
            /\ hdr' = hdr
            /\ headerSets' = headerSets
    /\ simpleResp' = 0
    /\ UNCHANGED <<setup, cancelled, ctxDone, badLines, simpleExit, resp, nresp, closed, atTail, session, status, wire, clientOut,
                   result, linesLeft, noiseLeft, history>>

\* The response the dispatcher hands to handleSimpleStreamingResponse after
\* the intelligent path failed: its own resp, the first response.
FallbackResp == 0

\* Mutant of NeedsFallback: the pass-through runs whatever was returned.
NeedsFallbackAlways == entry = "dispatcher"

\* err != nil after processor.HandleStreamingResponse, in the dispatcher.
NeedsFallback == entry = "dispatcher" /\ result # "nil"

\* handleStreamingResponse after processor.HandleStreamingResponse returned.
AfterHandler ==
    /\ pc = "returned"
    /\ IF NeedsFallback
       THEN /\ pc' = "simple"
            /\ simpleResp' = FallbackResp
            /\ hdr' = SSEHeaders
            /\ headerSets' = headerSets + 1
       ELSE /\ pc' = "done"
            /\ simpleResp' = simpleResp
            /\ hdr' = hdr
            /\ headerSets' = headerSets
    /\ UNCHANGED <<setup, cancelled, ctxDone, badLines, simpleExit, resp, nresp, closed, atTail, session, status, wire, clientOut,
                   result, linesLeft, noiseLeft, history>>

\* ------------------------------------------------------ simple pass-through

\* resp.Body.Read returned n > 0 bytes: they are written and flushed; a write
\* error ends the pass-through.
SimpleChunk ==
    /\ pc = "simple"
    /\ simpleResp \notin closed
    /\ linesLeft > 0
    /\ linesLeft' = linesLeft - 1
    /\ noiseLeft' = noiseLeft
    /\ \E ok \in BOOLEAN :
         IF ok THEN /\ Deliver(RawRecord(simpleResp), status, hdr.ctype)
                    /\ pc' = "simple"
                    /\ simpleExit' = simpleExit
         ELSE /\ pc' = "done"
              /\ simpleExit' = "write error"
              /\ UNCHANGED <<wire, clientOut>>
    /\ UNCHANGED <<setup, cancelled, ctxDone, headerSets, badLines, resp, nresp, closed, atTail, simpleResp, session, hdr, status,
                   result, history>>

\* resp.Body.Read returned io.EOF.
SimpleEOF ==
    /\ pc = "simple"
    /\ simpleResp \notin closed
    /\ pc' = "done"
    /\ simpleExit' = "EOF"
    /\ UNCHANGED <<setup, cancelled, ctxDone, headerSets, badLines, resp, nresp, closed, atTail, simpleResp, session, writer,
                   result, linesLeft, noiseLeft, history>>

\* resp.Body.Read returned another error (always so on a closed body).
SimpleReadErr ==
    /\ pc = "simple"
    /\ pc' = "done"
    /\ simpleExit' = "read error"
    /\ UNCHANGED <<setup, cancelled, ctxDone, headerSets, badLines, resp, nresp, closed, atTail, simpleResp, session, writer,
                   result, linesLeft, noiseLeft, history>>

\* ------------------------------------------------------ one stream attempt

\* processStreamAttempt up to its scanner loop: the SSE headers are set.
StartAttempt ==
    /\ pc = "start"
    /\ pc' = "scan"
    /\ hdr' = SSEHeaders
    /\ headerSets' = headerSets + 1
    /\ atTail' = FALSE
    /\ lastTextChunk' = <<>>
    /\ UNCHANGED <<setup, cancelled, ctxDone, badLines, simpleExit, resp, nresp, closed, simpleResp, accumulatedText,
                   consecutiveRetryCount, resumePunctStreak, status, wire, clientOut,
                   result, linesLeft, noiseLeft, history>>

IsNoise(line) == line.kind \in {"blank", "bad", "other"}

\* The scanner returns one more line of the body: a complete line, or the
\* unterminated tail the body ends with.
CanScan(line) ==
    /\ pc = "scan"
    /\ ~atTail
    /\ linesLeft > 0
    /\ line \in UpstreamLines(channelType) \cup UpstreamTails
    /\ IsNoise(line) => noiseLeft > 0

Scanned(line) ==
    /\ atTail' = line.partial
    /\ linesLeft' = linesLeft - 1
    /\ noiseLeft' = IF IsNoise(line) THEN noiseLeft - 1 ELSE noiseLeft

\* processStreamAttempt returns (true, nil): HandleStreamingResponse returns nil.
ReturnClean ==
    /\ pc' = "returned"
    /\ result' = "nil"
    /\ allPunct' = EndedOn(lastTextChunk)

\* Mutant of ReturnWriteError: the failed write is taken as the end of an
\* attempt without completion, and the retry controller goes on.
ReturnWriteErrorRetried ==
    /\ pc' = "decide"
    /\ result' = result
    /\ allPunct' = EndedOn(lastTextChunk')

\* fmt.Fprintf failed: processStreamAttempt returns the error, and
\* HandleStreamingResponse returns it.
ReturnWriteError ==
    /\ pc' = "returned"
    /\ result' = "failed to write to client"
    /\ allPunct' = EndedOn(lastTextChunk')

\* line == "": continue.
ScanBlank(line) ==
    /\ CanScan(line)
    /\ line.kind = "blank"
    /\ Scanned(line)
    /\ UNCHANGED <<setup, cancelled, ctxDone, headerSets, badLines, simpleExit, pc, resp, nresp, closed, simpleResp, session, writer, result, history>>

\* data: [DONE]: return true, nil.
ScanDone(line) ==
    /\ CanScan(line)
    /\ line.kind = "done"
    /\ Scanned(line)
    /\ ReturnClean
    /\ signals' = signals \cup {"doneLine"}
    /\ unwritten' = unwritten
    /\ UNCHANGED <<setup, cancelled, ctxDone, headerSets, badLines, simpleExit, resp, nresp, closed, simpleResp, session, writer, retryCalls>>

\* json.Unmarshal fails: continue, before the line is written.
ScanBadJSON(line) ==
    /\ CanScan(line)
    /\ line.kind = "bad"
    /\ Scanned(line)
    /\ badLines' = badLines + 1
    /\ UNCHANGED <<setup, cancelled, ctxDone, headerSets, simpleExit, pc, resp, nresp, closed, simpleResp, session, writer, result, history>>

\* The line forwarded for a frame: Gemini's is rewritten without done-tokens.
ProcessedLine(line) ==
    IF channelType = "gemini" THEN removeDoneTokensFromLine(line, sh.doneTokenPatterns) ELSE line

\* Mutant of FrameCompletes: the accumulated text is not looked at.
FrameCompletesOnData(data, accumulated) ==
    isStreamComplete(data, channelType, <<>>, sh.doneTokenPatterns)

\* The completion check after a frame was written.
FrameCompletes(data, accumulated) ==
    isStreamComplete(data, channelType, accumulated, sh.doneTokenPatterns)

\* Mutant of Accumulate: the chunk is accumulated without its done-token.
AccumulateStripped(accumulated, textChunk) ==
    accumulated \o RemoveDoneTokensFromText(textChunk, DefaultDoneTokenPatterns)

\* *accumulatedText += textChunk
Accumulate(accumulated, textChunk) == accumulated \o textChunk

\* A data: line that decodes: its text is accumulated, the line is written
\* and flushed, then the completion check is made.
ScanFrame(line) ==
    /\ CanScan(line)
    /\ line.kind = "frame"
    /\ Scanned(line)
    /\ LET textChunk == extractTextFromData(line.data, channelType)
           acc == Accumulate(accumulatedText, textChunk)
           terminal == isStreamComplete(line.data, channelType, acc, sh.doneTokenPatterns)
       IN  /\ accumulatedText' = acc
           /\ lastTextChunk' = IF textChunk # <<>> THEN textChunk ELSE lastTextChunk
           /\ \E ok \in BOOLEAN :
                IF ok
                THEN /\ Deliver(SSERecord(line, ProcessedLine(line)), status, hdr.ctype)
                     /\ unwritten' = unwritten
                     /\ signals' = signals \cup (IF terminal THEN {"terminalFrame"} ELSE {})
                     /\ IF FrameCompletes(line.data, acc)
                        THEN /\ pc' = "returned"
                             /\ result' = "nil"
                             /\ allPunct' = EndedOn(lastTextChunk')
                        ELSE UNCHANGED <<pc, result, allPunct>>
                ELSE /\ signals' = signals \cup {"writeError"}
                     /\ unwritten' = textChunk
                     /\ ReturnWriteError
                     /\ UNCHANGED <<wire, clientOut>>
    /\ UNCHANGED <<setup, cancelled, ctxDone, headerSets, badLines, simpleExit, resp, nresp, closed, simpleResp, consecutiveRetryCount,
                   resumePunctStreak, hdr, status, retryCalls>>

\* A line without the data: prefix is written as it is and flushed.
ScanOther(line) ==
    /\ CanScan(line)
    /\ line.kind = "other"
    /\ Scanned(line)
    /\ UNCHANGED <<setup, cancelled, ctxDone, headerSets, badLines, simpleExit, resp, nresp, closed, simpleResp, session, hdr, status, unwritten, retryCalls>>
    /\ \E ok \in BOOLEAN :
         IF ok THEN /\ Deliver(SSERecord(line, line), status, hdr.ctype)
                    /\ UNCHANGED <<pc, result, allPunct, signals>>
         ELSE /\ ReturnWriteError
              /\ signals' = signals \cup {"writeError"}
              /\ UNCHANGED <<wire, clientOut>>

\* scanner.Err() != nil: return false, nil, before any completion heuristic.
ScanError ==
    /\ pc = "scan"
    /\ pc' = "decide"
    /\ allPunct' = EndedOn(lastTextChunk)
    /\ unwritten' = unwritten
    /\ signals' = signals \cup
         (IF isContentComplete(accumulatedText, channelType, sh.doneTokenPatterns)
          THEN {"contentCompleteAtEnd"} ELSE {})
    /\ UNCHANGED <<setup, cancelled, ctxDone, headerSets, badLines, simpleExit, resp, nresp, closed, atTail, simpleResp, session, writer,
                   result, linesLeft, noiseLeft, retryCalls>>

\* The streak after an attempt that ended at EOF.
StreakAtEOF ==
    IF sh.enablePunctuationHeuristic /\ consecutiveRetryCount > 0
         /\ endsWithSentencePunctuation(lastTextChunk)
    THEN resumePunctStreak + 1
    ELSE 0

\* Mutant of CleanAtEOF: the content check at EOF is left out.
CleanAtEOFStreakOnly(streak) == streak >= PunctStreakLimit

\* Whether an attempt that ended at EOF with the streak at `streak` is a clean
\* exit: the streak reached its limit, or the content seems complete.
CleanAtEOF(streak) ==
    \/ streak >= PunctStreakLimit
    \/ isContentComplete(accumulatedText, channelType, sh.doneTokenPatterns)

\* The body ended without an explicit completion signal.
ScanEOF ==
    /\ pc = "scan"
    /\ resumePunctStreak' = StreakAtEOF
    /\ allPunct' = EndedOn(lastTextChunk)
    /\ unwritten' = unwritten
    /\ signals' = signals
         \cup (IF StreakAtEOF >= PunctStreakLimit THEN {"punctStreak"} ELSE {})
         \cup (IF isContentComplete(accumulatedText, channelType, sh.doneTokenPatterns)
               THEN {"contentCompleteAtEnd", "contentCompleteAtEOF"} ELSE {})
    /\ IF CleanAtEOF(StreakAtEOF)
       THEN /\ pc' = "returned"
            /\ result' = "nil"
       ELSE /\ pc' = "decide"
            /\ result' = result
    /\ UNCHANGED <<setup, cancelled, ctxDone, headerSets, badLines, simpleExit, resp, nresp, closed, atTail, simpleResp, accumulatedText,
                   consecutiveRetryCount, lastTextChunk, writer, linesLeft, noiseLeft, retryCalls>>

\* -------------------------------------------------------- retry controller

\* Mutant of RetryBudgetExhausted: the comparison is off by one.
RetryBudgetExhaustedLate == consecutiveRetryCount > sh.maxRetries

\* consecutiveRetryCount >= sh.maxRetries
RetryBudgetExhausted == consecutiveRetryCount >= sh.maxRetries

\* The N of the envelope's message "Retry limit (N) exceeded ...".
EnvelopeLimit == sh.maxRetries

\* Mutant of RetryStatus: WriteHeader is not called.
RetryStatusKept == status

\* writer.WriteHeader(504): the status of a response whose headers have not
\* gone out yet.
RetryStatus == IF wire.committed THEN status ELSE RetryErrorStatus

\* Mutant of RetryLimit: the limit is not enforced and the handler reads on.
RetryLimitReadsOn ==
    /\ pc = "decide"
    /\ RetryBudgetExhausted
    /\ pc' = "scan"
    /\ UNCHANGED <<setup, cancelled, ctxDone, headerSets, badLines, simpleExit, resp, nresp, closed, atTail,
                   simpleResp, session, writer, result, linesLeft, noiseLeft, history>>

\* writeRetryError: Content-Type and status are set, the envelope is written.
\* WriteHeader changes the status only while no header has gone out.
RetryLimit ==
    /\ pc = "decide"
    /\ RetryBudgetExhausted
    /\ hdr' = [ctype |-> "application/json"]
    /\ status' = RetryStatus
    /\ \E ok \in BOOLEAN :
         IF ok THEN /\ Deliver(EnvelopeRecord(EnvelopeLimit), status', hdr'.ctype)
                    /\ result' = "retry limit exceeded"
         ELSE /\ result' = "failed to write error response"
              /\ UNCHANGED <<wire, clientOut>>
    /\ pc' = "returned"
    /\ signals' = signals \cup {"retryLimit"}
    /\ unwritten' = unwritten
    /\ UNCHANGED <<setup, cancelled, ctxDone, headerSets, badLines, simpleExit, resp, nresp, closed, atTail, simpleResp, session, linesLeft, noiseLeft,
                   allPunct, retryCalls>>

\* The retry is prepared: the count goes up, the current body is closed, and
\* the handler sleeps for retryDelay.
PrepareRetry ==
    /\ pc = "decide"
    /\ ~RetryBudgetExhausted
    /\ consecutiveRetryCount' = consecutiveRetryCount + 1
    /\ closed' = closed \cup {resp}
    /\ pc' = "request"
    /\ UNCHANGED <<setup, cancelled, ctxDone, headerSets, badLines, simpleExit, resp, nresp, atTail, simpleResp, accumulatedText,
                   resumePunctStreak, lastTextChunk, writer, result, linesLeft, noiseLeft, history>>

\* retryRequestFunc(accumulatedText) returned a response: resp = newResp.
\* The dispatcher's retryFunc is createRetryRequest, which makes the request
\* under ctx, cancel := context.WithTimeout(c.Request.Context(), 30s) with
\* defer cancel(): ctx is cancelled when createRetryRequest returns the
\* response.  A body read under a cancelled context returns what the
\* transport had buffered and then fails; the attempt's reads are any of the
\* outcomes Next allows.  A direct caller's retry function is its own.
RetryRequestOK ==
    /\ pc = "request"
    /\ ~cancelled
    /\ retryCalls' = retryCalls + 1
    /\ resp' = nresp
    /\ nresp' = nresp + 1
    /\ ctxDone' = IF entry = "dispatcher" THEN ctxDone \cup {nresp} ELSE ctxDone
    /\ pc' = "start"
    /\ UNCHANGED <<setup, cancelled, headerSets, badLines, simpleExit, closed, atTail, simpleResp, session, writer, result, linesLeft, noiseLeft,
                   signals, unwritten, allPunct>>

\* retryRequestFunc(accumulatedText) returned an error: it is returned.
RetryRequestFail ==
    /\ pc = "request"
    /\ retryCalls' = retryCalls + 1
    /\ result' = "retry request failed"
    /\ pc' = "returned"
    /\ UNCHANGED <<setup, cancelled, ctxDone, headerSets, badLines, simpleExit, resp, nresp, closed, atTail, simpleResp, session, writer,
                   linesLeft, noiseLeft, signals, unwritten, allPunct>>

\* ------------------------------------------------------------ cancellation

\* The places where the session waits: an upstream read or a downstream write
\* of an attempt or of the pass-through, the retryDelay sleep and the retry
\* request.
AtSuspensionPoint == pc \in {"scan", "request", "simple"}

\* The inbound request's context is cancelled while the session waits.
\* HandleStreamingResponse and handleSimpleStreamingResponse do not look at the
\* context: time.Sleep is not interrupted, reads and writes fail or not as the
\* transport decides, and a retry request made with a cancelled context fails
\* (createRetryRequest derives its context from c.Request.Context()).
Cancel ==
    /\ AtSuspensionPoint
    /\ ~cancelled
    /\ cancelled' = TRUE
    /\ UNCHANGED <<setup, ctxDone, headerSets, badLines, simpleExit, pc, resp, nresp, closed, atTail,
                   simpleResp, session, writer, result, linesLeft, noiseLeft, history>>

\* ------------------------------------------------------- upstream requests

\* Everything but the request's variables.
stream == <<entry, channelType, config, sh, budget, pc, resp, nresp, closed, atTail, simpleResp,
            session, writer, result, linesLeft, noiseLeft, history,
            cancelled, ctxDone, headerSets, badLines, simpleExit, calls>>

\* An inbound streaming request with body bytes on a channel, at the point
\* where the session that serves it has accumulated text: the request goes
\* upstream with the inbound body.
InitRequest ==
    \E ch \in ChannelTypes, text \in ResumeTexts, bytes \in RequestBodies :
      /\ InitStream("dispatcher", ch, CreateProcessor(ch), 0)
      /\ pc = "request"
      /\ accumulatedText = text
      /\ rpc = "ready"
      /\ originalBodyBytes = bytes
      /\ goMaps = <<>>
      /\ goArrays = <<>>
      /\ originalBody = 0
      /\ retryBody = 0
      /\ unshaped = bytes
      /\ reqBody = bytes
      /\ reshapes = 0
      /\ NoCall

\* createRetryRequest(c, channelHandler, group, bodyBytes, accumulatedText) up
\* to client.Do: the body is decoded, the retry body built and encoded, and
\* the channel reshapes the request (the Gemini channel injects its marker).
CreateRetryRequest ==
    /\ rpc = "ready"
    /\ IF originalBodyBytes.kind # "object"
       THEN /\ rpc' = "failed"
            /\ UNCHANGED <<goMaps, goArrays, originalBody, retryBody, unshaped, reqBody, reshapes>>
       ELSE LET u == Unmarshal(EmptyHeap, originalBodyBytes)
                b == buildRetryRequestBody([maps |-> u.maps, arrays |-> u.arrays], u.addr,
                                           accumulatedText, channelType)
                retryBodyBytes == Marshal(b.heap, b.addr)
            IN  /\ goMaps' = b.heap.maps
                /\ goArrays' = b.heap.arrays
                /\ originalBody' = u.addr
                /\ retryBody' = b.addr
                /\ unshaped' = retryBodyBytes
                /\ reqBody' = IF channelType = "gemini"
                              THEN ReshapeStreamReqBody(retryBodyBytes) ELSE retryBodyBytes
                /\ reshapes' = IF channelType = "gemini" THEN 1 ELSE 0
                /\ rpc' = "sent"
    /\ UNCHANGED <<originalBodyBytes, stream>>

\* channelHandler.ReshapeStreamReqBody(req) on a request of the Gemini channel
\* (the inbound request on its way upstream, or a request reshaped before).
Reshape ==
    /\ rpc \in {"ready", "sent"}
    /\ channelType = "gemini"
    /\ reshapes < MaxReshapes
    /\ reqBody' = ReshapeStreamReqBody(reqBody)
    /\ reshapes' = reshapes + 1
    /\ UNCHANGED <<rpc, originalBodyBytes, goMaps, goArrays, originalBody, retryBody, unshaped, stream>>

NextRequest == CreateRetryRequest \/ Reshape

RequestSpec == InitRequest /\ [][NextRequest]_vars

\* ---------------------------------------------------------- function calls

\* A StreamHandler the factory built for a channel, and a text: one of the
\* factory's or the handler's functions is about to be called on its own, as
\* the tests of the package call them.
InitCall ==
    \E ch \in ChannelTypes, text \in Texts :
      /\ InitStream("handler", ch, CreateProcessor(ch), 0)
      /\ pc = "call"
      /\ accumulatedText = <<>>
      /\ NoRequest
      /\ called = "none"
      /\ argText = text
      /\ returned = NoReturn

\* A call of function fn that returns ret.
Call(fn, ret) ==
    /\ pc = "call"
    /\ called = "none"
    /\ called' = fn
    /\ returned' = ret
    /\ UNCHANGED <<argText, entry, channelType, config, sh, budget, request, pc, resp, nresp, closed,
                   atTail, simpleResp, session, writer, result, linesLeft, noiseLeft, history,
                   cancelled, ctxDone, headerSets, badLines, simpleExit>>

\* factory.CreateProcessor(channelType, group)
CallCreateProcessor ==
    Call("CreateProcessor",
         [NoReturn EXCEPT !.processor = NewDefaultStreamProcessor(CreateProcessor(channelType))])

\* sh.endsWithSentencePunctuation(text)
CallEndsWithSentencePunctuation ==
    Call("endsWithSentencePunctuation",
         [NoReturn EXCEPT !.bool = endsWithSentencePunctuation(argText)])

\* sh.isContentComplete(text, channelType)
CallIsContentComplete ==
    Call("isContentComplete",
         [NoReturn EXCEPT !.bool = isContentComplete(argText, channelType, sh.doneTokenPatterns)])

\* sh.RemoveDoneTokensFromText(text)
CallRemoveDoneTokensFromText ==
    Call("RemoveDoneTokensFromText",
         [NoReturn EXCEPT !.text = RemoveDoneTokensFromText(argText, sh.doneTokenPatterns)])

\* sh.removeDoneTokensFromLine(line, data) on the Gemini frame that carries
\* the text.
CallRemoveDoneTokensFromLine ==
    Call("removeDoneTokensFromLine",
         [NoReturn EXCEPT !.line = removeDoneTokensFromLine(GeminiFrame(argText), sh.doneTokenPatterns)])

NextCall ==
    \/ CallCreateProcessor
    \/ CallEndsWithSentencePunctuation
    \/ CallIsContentComplete
    \/ CallRemoveDoneTokensFromText
    \/ CallRemoveDoneTokensFromLine

CallSpec == InitCall /\ [][NextCall]_vars

\* ---------------------------------------------------------- specification

Next ==
    \/ Dispatch
    \/ StartAttempt
    \/ \E line \in UpstreamLines(channelType) \cup UpstreamTails :
         \/ ScanBlank(line)
         \/ ScanDone(line)
         \/ ScanBadJSON(line)
         \/ ScanFrame(line)
         \/ ScanOther(line)
    \/ ScanError
    \/ ScanEOF
    \/ RetryLimit
    \/ PrepareRetry
    \/ RetryRequestOK
    \/ RetryRequestFail
    \/ AfterHandler
    \/ SimpleChunk
    \/ SimpleEOF
    \/ SimpleReadErr

Spec == Init /\ [][Next]_vars

\* The sessions whose termination is followed.
InitFair ==
    \/ \E ch \in ChannelTypes : InitWith("dispatcher", ch, CreateProcessor(ch), MaxFairLines)
    \/ \E ch \in ChannelTypes, cfg \in DirectConfigs : InitWith("handler", ch, cfg, MaxFairLines)

\* A session in which every step that can be taken is taken in the end: a
\* read of the upstream body returns (a line, EOF or an error; the body has
\* finitely many lines), a write to the client returns, the retryDelay sleep
\* ends and the retry request returns.
FairSpec == InitFair /\ [][Next]_vars /\ WF_vars(Next)

\* The sessions whose inbound request may be cancelled under way.
NextCancel == Next \/ Cancel

CancelSpec == Init /\ [][NextCancel]_vars

\* ------------------------------------------------------------ the claims

\* The session's output on the intelligent path: what HandleStreamingResponse
\* wrote (the pass-through's chunks left out).
IntelligentOut == SelectSeq(clientOut, LAMBDA r : r.kind # "raw")

\* The text the client sees in the forwarded frames, in order.
RECURSIVE ForwardedText(_)
ForwardedText(out) ==
    IF out = <<>> THEN <<>>
    ELSE LET r == Head(out)
         IN  (IF r.kind = "sse" /\ r.line.kind = "frame"
              THEN extractTextFromData(r.line.data, channelType) ELSE <<>>)
             \o ForwardedText(Tail(out))

\* The text the upstream sent in the forwarded frames, in order.
RECURSIVE UpstreamText(_)
UpstreamText(out) ==
    IF out = <<>> THEN <<>>
    ELSE LET r == Head(out)
         IN  (IF r.kind = "sse" /\ r.read.kind = "frame"
              THEN extractTextFromData(r.read.data, channelType) ELSE <<>>)
             \o UpstreamText(Tail(out))

\* The signals on which the code declares completion.
CompletionSignals == {"doneLine", "terminalFrame", "punctStreak", "contentCompleteAtEOF"}

Completed == signals \cap CompletionSignals # {}

\* C1 as stated: the retry count, the calls of retryRequestFunc and the
\* attempts stay within the configured MaxRetries (+1 for the attempts).
C1_Original ==
    /\ consecutiveRetryCount <= config.MaxRetries
    /\ retryCalls <= config.MaxRetries
    /\ nresp <= config.MaxRetries + 1

\* C1 amended: the bound is the handler's effective maxRetries, which is the
\* configured MaxRetries when that is positive and 3 when it is 0: the retry
\* count and the calls of retryRequestFunc never exceed it, the attempts
\* never exceed it plus one.
C1_AttemptsBounded ==
    /\ sh.maxRetries = (IF config.MaxRetries > 0 THEN config.MaxRetries ELSE DefaultMaxRetries)
    /\ consecutiveRetryCount <= sh.maxRetries
    /\ retryCalls <= sh.maxRetries
    /\ nresp <= sh.maxRetries + 1

\* C1 witness: a session configured with MaxRetries = 0 in its fourth attempt.
C1_Witness ==
    /\ config.MaxRetries = 0
    /\ pc = "scan"
    /\ retryCalls = DefaultMaxRetries
    /\ nresp = DefaultMaxRetries + 1

\* C2 as stated: the session exits cleanly if and only if a data: [DONE] line
\* or a terminal frame was observed, the streak reached 3 on a resumed attempt,
\* or isContentComplete held at the end of an attempt.
C2_Original ==
    result # "none" =>
      (result = "nil" <=>
         signals \cap {"doneLine", "terminalFrame", "punctStreak", "contentCompleteAtEnd"} # {})

\* C2 amended: the session exits cleanly if and only if a data: [DONE] line
\* was read, a terminal frame was forwarded, the streak reached 3 at the EOF of
\* a resumed attempt, or isContentComplete held at the EOF of an attempt (an
\* attempt that ends on a read error is retried without that check).
C2_CleanExitIff == (result = "nil") <=> Completed

\* C2 witness: a clean exit on the punctuation streak of a resumed attempt.
C2_Witness ==
    /\ result = "nil"
    /\ signals \cap CompletionSignals = {"punctStreak"}
    /\ consecutiveRetryCount >= PunctStreakLimit

\* C3 as stated: a Gemini session without done-token and without STOP, all of
\* whose attempts ended on sentence punctuation, exits cleanly only after
\* three resumed attempts, with the streak at 3.
C3_ThreeResumedAttempts ==
    ( /\ channelType = "gemini"
      /\ result = "nil"
      /\ signals \cap {"doneLine", "terminalFrame"} = {}
      /\ ~ContainsAny(accumulatedText, sh.doneTokenPatterns)
      /\ allPunct )
    => /\ consecutiveRetryCount >= PunctStreakLimit
       /\ resumePunctStreak >= PunctStreakLimit

\* C4 as stated: no Gemini frame written to the client has a text that ends
\* with a done-token pattern.
C4_NoTrailingDoneToken ==
    channelType = "gemini" =>
      \A i \in 1..Len(clientOut) :
        (clientOut[i].kind = "sse" /\ clientOut[i].line.kind = "frame") =>
          \A j \in 1..Len(sh.doneTokenPatterns) :
            ~HasSuffix(extractGeminiText(clientOut[i].line.data), sh.doneTokenPatterns[j])

\* C5 as stated, on the sessions that exit cleanly: accumulatedText is the
\* concatenation of the texts of the frames as written to the client.
C5_Original == result = "nil" => accumulatedText = ForwardedText(clientOut)

\* C5 amended: accumulatedText is the in-order concatenation of the text
\* chunks of the forwarded frames as the upstream sent them (for Gemini before
\* the done-token is stripped), followed by the chunk of the frame whose write
\* failed when the session ended on a write error.
C5_AccumulatedIsUpstreamText ==
    accumulatedText = UpstreamText(clientOut) \o unwritten

\* C5 witness: the truncation scenario: a Gemini session that ended cleanly in
\* its second attempt with the text "nedo" then "x [done]", forwarded as "nedox".
C5_Witness ==
    /\ channelType = "gemini"
    /\ result = "nil"
    /\ nresp = 2
    /\ accumulatedText = TxtPlain \o TxtDone
    /\ ForwardedText(clientOut) = TxtPlain \o <<"x">>

\* C6: once the code has observed a completion signal, nothing more is
\* written to the client.
C6_NoBytesAfterCompletion == [][Completed => clientOut' = clientOut]_vars

\* C6 witness: a dispatcher session that completed while its upstream had
\* more to send.
C6_Witness ==
    /\ entry = "dispatcher"
    /\ Completed
    /\ pc = "done"
    /\ linesLeft > 0
    /\ resp \notin closed

\* The line written for the line read.
ForwardedAs(read) ==
    IF channelType = "gemini" /\ read.kind = "frame"
    THEN removeDoneTokensFromLine(read, sh.doneTokenPatterns)
    ELSE read

\* A record of the intelligent path's output that is a forwarded line: whole,
\* followed by two LFs, and read after the line before it.
IsForwardedLine(out, i) ==
    /\ out[i].kind = "sse"
    /\ out[i].term = "LFLF"
    /\ out[i].line = ForwardedAs(out[i].read)
    /\ i > 1 => (out[i - 1].kind = "sse" /\ out[i - 1].seq < out[i].seq)

\* C7 as stated: the intelligent path writes exactly the forwarded lines, each
\* followed by two LFs, in the order they were read.
C7_Original ==
    \A i \in 1..Len(IntelligentOut) : IsForwardedLine(IntelligentOut, i)

\* C7 amended: the intelligent path writes the forwarded lines, each whole and
\* followed by two LFs, in the order they were read, and after them, only when
\* the retry budget was exhausted, the error envelope of writeRetryError, once.
C7_OrderedLinesThenEnvelope ==
    \A i \in 1..Len(IntelligentOut) :
      \/ IsForwardedLine(IntelligentOut, i)
      \/ /\ IntelligentOut[i].kind = "envelope"
         /\ i = Len(IntelligentOut)
         /\ "retryLimit" \in signals
         /\ i > 1 => IntelligentOut[i - 1].kind = "sse"

\* C7 witness: lines forwarded over several attempts, then the envelope.
C7_Witness ==
    /\ Len(IntelligentOut) = 3
    /\ IntelligentOut[1].kind = "sse"
    /\ IntelligentOut[2].kind = "sse"
    /\ IntelligentOut[2].read.kind = "frame"
    /\ IntelligentOut[3].kind = "envelope"
    /\ nresp >= 2

\* C8 as stated: every line the session forwards is a complete line of an
\* upstream body, never the unterminated tail of a body cut off mid-line.
C8_NoPartialLine ==
    \A i \in 1..Len(clientOut) : clientOut[i].kind = "sse" => ~clientOut[i].read.partial

\* C9 as stated: pass-through exactly for openai and anthropic, the intelligent
\* processor otherwise, and the fallback pass-through reads the response of
\* the most recent attempt.
C9_FallbackOnCurrentResponse ==
    /\ (entry = "dispatcher" /\ UsesSimpleProxy(channelType)) => pc \in {"dispatch", "simple", "done"}
    /\ (entry = "dispatcher" /\ ~UsesSimpleProxy(channelType) /\ pc = "simple")
         => (result \notin {"none", "nil"} /\ simpleResp = resp)

\* The envelope is the last thing the client received.
EnvelopeLast(n) ==
    /\ clientOut # <<>>
    /\ clientOut[Len(clientOut)] = EnvelopeRecord(n)

\* What C10 says of a session whose envelope was written.
EnvelopeReceived ==
    /\ EnvelopeLast(sh.maxRetries)
    /\ Len(clientOut) = 1 =>
         wire = [committed |-> TRUE, status |-> RetryErrorStatus, ctype |-> "application/json"]

\* The attempts of a session whose retry budget was exhausted.
AttemptsAtLimit ==
    /\ nresp = sh.maxRetries + 1
    /\ (entry = "dispatcher" /\ channelType = "gemini") => nresp = GeminiMaxRetries + 1

C11_CancelAborts ==
    [][cancelled =>
         /\ (pc' = "scan" => pc = "scan")
         /\ (result' # "none" => \A r \in 1..(nresp' - 1) : r \in closed')]_vars

\* C12 as stated: at most one upstream response is open at any time, and once
\* HandleStreamingResponse has returned none of the responses obtained through
\* retryRequestFunc is open.
C12_ResponsesClosed ==
    /\ Cardinality((0..(nresp - 1)) \ closed) <= 1
    /\ result # "none" => \A r \in 1..(nresp - 1) : r \in closed

\* Attempts started so far (calls of processStreamAttempt).
AttemptsStarted ==
    IF entry = "dispatcher" /\ UsesSimpleProxy(channelType) THEN 0
    ELSE IF pc \in {"dispatch", "start"} THEN nresp - 1 ELSE nresp

\* Calls of handleSimpleStreamingResponse so far.
PassThroughCalls ==
    IF entry = "dispatcher" /\ pc \in {"simple", "done"}
         /\ (UsesSimpleProxy(channelType) \/ result # "nil")
    THEN 1 ELSE 0

\* C13 as stated: the SSE headers are set exactly once in a call, before the
\* first body byte is written.
C13_Original ==
    /\ headerSets <= 1
    /\ clientOut # <<>> => headerSets = 1

\* C13 amended: the SSE headers are set once at the start of every attempt and
\* once at the start of the pass-through, the first time before the first body
\* byte is written; the headers that go out with the first byte carry
\* Content-Type text/event-stream, unless the first write is the error
\* envelope, which goes out as application/json.
C13_HeadersBeforeFirstByte ==
    /\ headerSets = AttemptsStarted + PassThroughCalls
    /\ clientOut # <<>> =>
         /\ headerSets >= 1
         /\ wire.committed
         /\ wire.ctype = (IF clientOut[1].kind = "envelope"
                          THEN "application/json" ELSE "text/event-stream")

\* C13 witness: two attempts and the fallback set the headers three times; the
\* client's first byte was a line of the first attempt.
C13_Witness ==
    /\ pc = "done"
    /\ headerSets = 3
    /\ nresp = 2
    /\ clientOut # <<>>
    /\ clientOut[1].kind = "sse"
    /\ clientOut[1].seq = 1
    /\ wire.ctype = "text/event-stream"

\* The entries addGeminiRetryContext inserts for the text.
ContextEntries(text) == <<MkEntry(TRUE, "model", text), MkEntry(TRUE, "user", ContinuePrompt)>>

\* C14: for a Gemini body whose contents is an array, the contents of the
\* resume body is the original contents with the model entry carrying
\* accumulatedText and the user continuation entry inserted right after the
\* last entry whose role is "user", or at the end when there is none; the
\* original entries keep their order.
C14_ResumeContents ==
    (rpc = "sent" /\ channelType = "gemini" /\ originalBodyBytes.obj["contents"].t = "array") =>
      LET orig == originalBodyBytes.obj["contents"].elems
          new == unshaped.obj["contents"]
          users == {i \in 1..Len(orig) : orig[i].isMap /\ orig[i].role = "user"}
          at == IF users = {} THEN Len(orig) ELSE CHOOSE i \in users : \A j \in users : j <= i
      IN  /\ new.t = "array"
          /\ Len(new.elems) = Len(orig) + 2
          /\ new.elems = SubSeq(orig, 1, at) \o ContextEntries(accumulatedText)
                           \o SubSeq(orig, at + 1, Len(orig))

\* C14 witness: the body whose contents is one model entry gives three
\* entries, the original first.
C14_Witness ==
    /\ rpc = "sent"
    /\ channelType = "gemini"
    /\ accumulatedText = TxtDone
    /\ originalBodyBytes.obj["contents"] = JArray(<<MkEntry(TRUE, "model", <<"m">>)>>)
    /\ unshaped.obj["contents"].elems =
         <<MkEntry(TRUE, "model", <<"m">>), MkEntry(TRUE, "model", TxtDone),
           MkEntry(TRUE, "user", ContinuePrompt)>>

\* The conversation array buildRetryRequestBody extends on a channel.
ExtendedKey(ch) == IF ch = "gemini" THEN "contents" ELSE "messages"

Markers(parts) == Cardinality({i \in 1..Len(parts) : parts[i] = newSystemPromptPart})

\* The parts array of an instruction value (none when it has none).
PartsOf(v) == IF v.t = "obj" /\ v.obj.partsKind = "array" THEN v.obj.parts ELSE <<>>

\* C16: whatever the body has under systemInstruction, after k reshapes the
\* body decodes, systemInstruction.parts is an array that ends with the
\* marker, and k markers were added to those the parts had: none is removed,
\* none is left out.
C16_MarkerAppended ==
    (channelType = "gemini" /\ reshapes >= 1 /\ unshaped.kind = "object") =>
      /\ reqBody.kind = "object"
      /\ LET si == reqBody.obj["systemInstruction"]
             parts == si.obj.parts
         IN  /\ si.t = "obj"
             /\ si.obj.partsKind = "array"
             /\ Len(parts) >= reshapes
             /\ \A i \in (Len(parts) - reshapes + 1)..Len(parts) : parts[i] = newSystemPromptPart
             /\ Markers(parts) = Markers(PartsOf(unshaped.obj["systemInstruction"]))
                                   + Markers(PartsOf(unshaped.obj["system_instruction"])) + reshapes

\* C16 witness: a body whose systemInstruction has the marker already,
\* reshaped twice, has it three times.
C16_Witness ==
    /\ channelType = "gemini"
    /\ reshapes = 2
    /\ unshaped.kind = "object"
    /\ unshaped.obj["systemInstruction"] = JObject(MkInstruction("array", <<"c1", newSystemPromptPart>>, ""))
    /\ unshaped.obj["system_instruction"] = JAbsent
    /\ reqBody.obj["systemInstruction"].obj.parts =
         <<"c1", newSystemPromptPart, newSystemPromptPart, newSystemPromptPart>>

\* C17: when the body has a system_instruction, the reshaped body has none,
\* and its systemInstruction.parts is the snake_case parts in their order,
\* then the camelCase parts in their order, then the markers.
C17_SnakeMergedFirst ==
    (channelType = "gemini" /\ reshapes >= 1 /\ unshaped.kind = "object"
       /\ unshaped.obj["system_instruction"].t # "absent") =>
      /\ reqBody.kind = "object"
      /\ reqBody.obj["system_instruction"] = JAbsent
      /\ reqBody.obj["systemInstruction"].t = "obj"
      /\ reqBody.obj["systemInstruction"].obj.parts =
           PartsOf(unshaped.obj["system_instruction"]) \o PartsOf(unshaped.obj["systemInstruction"])
             \o [i \in 1..reshapes |-> newSystemPromptPart]

\* C17 witness: snake_case parts s1, s2 and camelCase parts c1, c2.
C17_Witness ==
    /\ channelType = "gemini"
    /\ reshapes = 1
    /\ unshaped.kind = "object"
    /\ PartsOf(unshaped.obj["system_instruction"]) = <<"s1", "s2">>
    /\ PartsOf(unshaped.obj["systemInstruction"]) = <<"c1", "c2">>
    /\ reqBody.obj["systemInstruction"].obj.parts = <<"s1", "s2", "c1", "c2", newSystemPromptPart>>

\* What the pass-through wrote.
RawOut == SelectSeq(clientOut, LAMBDA r : r.kind = "raw")

\* The pass-through wrote the chunks it read, as read and in the order read,
\* all of them but the one whose write failed; it interprets nothing and
\* retries nothing.
PassThroughCopies ==
    /\ \A i \in 2..Len(RawOut) : RawOut[i].seq = RawOut[i - 1].seq + 1
    /\ RawOut # <<>> =>
         RawOut[Len(RawOut)].seq = ReadCount - (IF simpleExit = "write error" THEN 1 ELSE 0)
    /\ (entry = "dispatcher" /\ UsesSimpleProxy(channelType)) =>
         /\ Len(clientOut) = ReadCount - (IF simpleExit = "write error" THEN 1 ELSE 0)
         /\ \A i \in 1..Len(clientOut) : clientOut[i].kind = "raw" /\ clientOut[i].seq = i
         /\ accumulatedText = <<>>
         /\ retryCalls = 0
         /\ nresp = 1
         /\ result = "none"

\* C18 as stated: the pass-through copies what it reads, and it stops only on
\* upstream EOF or on the first downstream write error.
C18_Original ==
    /\ PassThroughCopies
    /\ simpleExit \in {"none", "EOF", "write error"}

\* C18 amended: the pass-through copies what it reads, and it stops on upstream
\* EOF, on an upstream read error, or on the first downstream write error, and
\* on nothing else.
C18_PassThrough ==
    /\ PassThroughCopies
    /\ simpleExit \in {"none", "EOF", "read error", "write error"}
    /\ (pc = "simple") => simpleExit = "none"
    /\ (PassThroughCalls = 1 /\ pc = "done") => simpleExit # "none"
    /\ PassThroughCalls = 0 => (simpleExit = "none" /\ RawOut = <<>>)

\* C18 witness: an openai session of the dispatcher that copied two chunks and
\* stopped on an upstream read error.
C18_Witness ==
    /\ entry = "dispatcher"
    /\ channelType = "openai"
    /\ simpleExit = "read error"
    /\ Len(clientOut) = 2
    /\ ReadCount = 2

\* C19 as stated: every data: line whose payload does not decode is forwarded
\* to the client as it is.
C19_BadLineForwarded ==
    Len(SelectSeq(clientOut, LAMBDA r : r.kind = "sse" /\ r.read.kind = "bad")) = badLines

\* The session wrote no error envelope.
NoEnvelope == \A i \in 1..Len(clientOut) : clientOut[i].kind # "envelope"

\* C20: when a write of a line to the client fails, HandleStreamingResponse
\* returns that error at once; afterwards no retry request is issued, no
\* attempt is started and the intelligent path writes nothing, and no error
\* envelope was or is written.
C20_WriteFailureIsFatal ==
    [][("writeError" \in signals') =>
         /\ result' = "failed to write to client"
         /\ pc' \in {"returned", "simple", "done"}
         /\ "retryLimit" \notin signals'
         /\ NoEnvelope'
         /\ ("writeError" \in signals) =>
              /\ retryCalls' = retryCalls
              /\ nresp' = nresp
              /\ IntelligentOut' = IntelligentOut]_vars

\* C20 witness: a write failed in a resumed attempt while retries remained.
C20_Witness ==
    /\ "writeError" \in signals
    /\ result = "failed to write to client"
    /\ nresp = 2
    /\ consecutiveRetryCount < sh.maxRetries
    /\ pc = "done"

\* C21: CreateProcessor gives gemini maxRetries 5, openai 2, anthropic 2 and
\* any other channel type 3, with the punctuation heuristic enabled for gemini
\* and generic and disabled for openai and anthropic, in the handler it builds
\* and in what GetStreamConfig reports.
C21_ChannelTuning ==
    called = "CreateProcessor" =>
        LET p == returned.processor
            maxRetries == CASE channelType = "gemini" -> 5
                            [] channelType = "openai" -> 2
                            [] channelType = "anthropic" -> 2
                            [] OTHER -> 3
            heuristic == channelType \in {"gemini", "generic"}
        IN  /\ p.handler.maxRetries = maxRetries
            /\ p.handler.enablePunctuationHeuristic = heuristic
            /\ GetStreamConfig(p).MaxRetries = maxRetries
            /\ GetStreamConfig(p).EnablePunctuationHeuristic = heuristic

\* C21 witness: the factory built the anthropic processor, with two retries
\* and the heuristic off.
C21_Witness ==
    /\ called = "CreateProcessor"
    /\ channelType = "anthropic"
    /\ GetStreamConfig(returned.processor).MaxRetries = 2
    /\ ~returned.processor.handler.enablePunctuationHeuristic

\* C22: endsWithSentencePunctuation(s) is true exactly when the last
\* character of s that is not white space exists and is one of
\* . ! ? ... (U+2026), the ideographic full stop, the fullwidth ! and ?, " and '
\* (so it is false for the empty text and for text that ends in a letter or a
\* comma).
C22_SentencePunctuation ==
    called = "endsWithSentencePunctuation" =>
        /\ returned.bool =
              \E i \in 1..Len(argText) :
                 /\ argText[i] \notin WhiteSpace
                 /\ \A j \in (i + 1)..Len(argText) : argText[j] \in WhiteSpace
                 /\ argText[i] \in {".", "!", "?", "ELLIPSIS", "IDEO_STOP", "FW_EXCLAM", "FW_QUESTION",
                                    "QUOTE", "APOS"}
        /\ argText = <<>> => ~returned.bool
        /\ (argText # <<>> /\ argText[Len(argText)] \in {"a", "b", ","}) => ~returned.bool

\* C22 witness: a text that ends in a fullwidth question mark followed by a
\* line feed was found to end with sentence punctuation.
C22_Witness ==
    /\ called = "endsWithSentencePunctuation"
    /\ returned.bool
    /\ Len(argText) >= 2
    /\ argText[Len(argText)] = "NL"
    /\ argText[Len(argText) - 1] = "FW_QUESTION"

\* C23 as stated: isContentComplete(text, dialect) is, for Gemini, true
\* exactly when some done-token pattern is a substring of text, and for every
\* other dialect true exactly when text ends with sentence punctuation and is
\* longer than 50.
C23_ContentCompleteRule ==
    called = "isContentComplete" =>
        returned.bool =
            IF channelType = "gemini"
            THEN ContainsAny(argText, sh.doneTokenPatterns)
            ELSE endsWithSentencePunctuation(argText) /\ ByteLen(argText) > 50

\* The done-token patterns text ends with.
SuffixPatterns(text) ==
    {sh.doneTokenPatterns[i] : i \in {j \in 1..Len(sh.doneTokenPatterns) : HasSuffix(text, sh.doneTokenPatterns[j])}}

\* C25 as stated: RemoveDoneTokensFromText returns a text that ends with a
\* done-token pattern without that suffix and without the white space before
\* it, the rest (leading white space included) unchanged; a text that ends
\* with no pattern is returned unchanged and its Gemini frame is forwarded
\* byte-identical.
C25_SuffixStripped ==
    /\ called = "RemoveDoneTokensFromText" =>
          IF SuffixPatterns(argText) = {}
          THEN returned.text = argText
          ELSE \E p \in SuffixPatterns(argText) : returned.text = TrimRight(TrimSuffix(argText, p))
    /\ (called = "removeDoneTokensFromLine" /\ SuffixPatterns(argText) = {}) =>
          returned.line = GeminiFrame(argText)

\* C24 as stated: resumePunctStreak starts at 0 and every attempt that ends
\* without an explicit terminator leaves it one higher when it is a resumed
\* attempt that ended at the end of the body on sentence punctuation, and at
\* 0 otherwise (a first attempt, a last chunk without final punctuation, an
\* upstream read error): at the end of every attempt it is the number of
\* most recent consecutive resumed attempts that ended on sentence punctuation.
C24_StreakCountsRun ==
    [][(ScanEOF \/ ScanError) =>
         resumePunctStreak' =
             IF ScanEOF /\ consecutiveRetryCount > 0 /\ endsWithSentencePunctuation(lastTextChunk)
             THEN resumePunctStreak + 1
             ELSE 0]_vars

\* C26 as stated: while an attempt reads a response that createRetryRequest
\* returned, the context under which that request was made is not cancelled.
C26_RetryResponseReadable ==
    (entry = "dispatcher" /\ pc \in {"start", "scan"} /\ resp > 0) => resp \notin ctxDone

\* C27: on a gemini or generic channel the accumulated text contains no
\* done-token pattern whenever a retry request can be made, and a session
\* whose accumulated text contains one has returned, cleanly or with a write
\* error.
C27_NoDoneTokenAtRetry ==
    channelType \in {"gemini", "generic"} =>
        /\ pc = "request" => ~ContainsAny(accumulatedText, sh.doneTokenPatterns)
        /\ ContainsAny(accumulatedText, sh.doneTokenPatterns) =>
              /\ pc \in {"returned", "simple", "done"}
              /\ result \in {"nil", "failed to write to client"}

\* C27 witness: a generic session read "nedo" in its first attempt, asked for
\* a retry with that text, read "nedo" again and returned cleanly on the done
\* token the two chunks spell together.
C27_Witness ==
    /\ channelType = "generic"
    /\ retryCalls = 1
    /\ resp = 1
    /\ accumulatedText = TxtPlain \o TxtPlain
    /\ result = "nil"

\* C28 as stated: a request whose body ReshapeStreamReqBody cannot decode as
\* a JSON object still carries the body bytes it had before the call.
C28_UndecodableLeftAlone ==
    (reshapes > 0 /\ unshaped.kind # "object") => reqBody = unshaped

\* How HandleStreamingResponse returns: nil, or one of its errors.
Returns ==
    {"nil", "failed to write to client", "retry request failed", "retry limit exceeded",
     "failed to write error response"}

\* C29: when every upstream body ends and every retry request returns, a
\* session that HandleStreamingResponse serves makes at most maxRetries + 1
\* attempts and HandleStreamingResponse returns in the end, with nil (clean
\* exit), an error, or the retry-limit error.
C29_Terminates ==
    /\ [](nresp <= sh.maxRetries + 1)
    /\ (pc = "start") ~> (pc \in {"returned", "simple", "done"} /\ result \in Returns)

\* C29 witness: a session returned the error of its last retry request, made
\* when the retry budget was all but used up.
C29_Witness ==
    /\ pc = "returned"
    /\ result = "retry request failed"
    /\ consecutiveRetryCount = sh.maxRetries
    /\ retryCalls = sh.maxRetries

====
